---------------------------- MODULE Spec2Model ----------------------------
(***************************************************************************)
(* City of Playford development applications scraper (scraper.ts).        *)
(*                                                                         *)
(* A JavaScript string is modelled as a sequence of one-character strings, *)
(* so that trimming, whitespace collapsing and date parsing are computed   *)
(* character by character as the code computes them.  Header cells are     *)
(* only ever compared with ===, so they are kept as atomic strings.        *)
(***************************************************************************)
EXTENDS Integers, Sequences, FiniteSets, TLC

(***************************************************************************)
(* Characters and strings                                                  *)
(***************************************************************************)
Digits == {"0", "1", "2", "3", "4", "5", "6", "7", "8", "9"}

DigitVal(c) ==
    CASE c = "0" -> 0 [] c = "1" -> 1 [] c = "2" -> 2 [] c = "3" -> 3
      [] c = "4" -> 4 [] c = "5" -> 5 [] c = "6" -> 6 [] c = "7" -> 7
      [] c = "8" -> 8 [] c = "9" -> 9

DigitChar(n) ==
    CASE n = 0 -> "0" [] n = 1 -> "1" [] n = 2 -> "2" [] n = 3 -> "3"
      [] n = 4 -> "4" [] n = 5 -> "5" [] n = 6 -> "6" [] n = 7 -> "7"
      [] n = 8 -> "8" [] n = 9 -> "9"

\* The characters String.prototype.trim() strips and the regular expression
\* class \s matches (the two that occur in the inputs: space and tab).
IsWhitespace(c) == c \in {" ", "\t"}

IsDigitAt(s, i) == i >= 1 /\ i <= Len(s) /\ s[i] \in Digits

Drop(s, n) == SubSeq(s, n + 1, Len(s))

RECURSIVE TrimLeft(_)
TrimLeft(s) ==
    IF s = <<>> \/ ~IsWhitespace(Head(s)) THEN s ELSE TrimLeft(Tail(s))

RECURSIVE TrimRight(_)
TrimRight(s) ==
    IF s = <<>> \/ ~IsWhitespace(s[Len(s)]) THEN s
    ELSE TrimRight(SubSeq(s, 1, Len(s) - 1))

\* String.prototype.trim()
Trim(s) == TrimRight(TrimLeft(s))

\* s.replace(/\s\s+/g, " "): every maximal run of two or more whitespace
\* characters becomes one space; a lone whitespace character is kept as is.
RECURSIVE ReplaceRuns(_)
ReplaceRuns(s) ==
    IF s = <<>> THEN <<>>
    ELSE IF Len(s) >= 2 /\ IsWhitespace(s[1]) /\ IsWhitespace(s[2])
         THEN <<" ">> \o ReplaceRuns(TrimLeft(s))
         ELSE <<Head(s)>> \o ReplaceRuns(Tail(s))

(***************************************************************************)
(* Address combining (scraper.ts lines 141, 142, 145, 146)                 *)
(***************************************************************************)
SeparatorNone(address1, address2) == <<>>

\* (address1 !== "" && address2 !== "") ? " " : ""
Separator(address1, address2) ==
    IF address1 # <<>> /\ address2 # <<>> THEN <<" ">> ELSE <<>>

\* address1 + separator + address2, then trim() and replace(/\s\s+/g, " ")
Join(address1, address2) ==
    ReplaceRuns(Trim(address1 \o Separator(address1, address2) \o address2))

\* The address of a row from its two raw cells, each trimmed first.
CombineAddress(first, second) == Join(Trim(first), Trim(second))

(***************************************************************************)
(* Date normalisation (scraper.ts lines 144 and 156):                      *)
(*     moment(raw, "D/MM/YYYY HH:mm:ss A", true)                           *)
(*     receivedDate.isValid() ? receivedDate.format("YYYY-MM-DD") : ""     *)
(* The parse is moment's string-and-format parse in strict mode: the       *)
(* format is cut into tokens, each token's regular expression is searched  *)
(* for in what is left of the input, and the parse is valid only if every  *)
(* token matched, no character was skipped or left over, and no parsed     *)
(* value overflows its calendar range.                                     *)
(***************************************************************************)
\* The value the code passes to moment when the CSV has no date column.
Null == <<"null">>

DateFormatOneDigitHour ==
    <<"D", "/", "MM", "/", "YYYY", " ", "H", ":", "mm", ":", "ss", " ", "A">>

DateFormatTwoDigitDay ==
    <<"DD", "/", "MM", "/", "YYYY", " ", "HH", ":", "mm", ":", "ss", " ", "A">>

\* "D/MM/YYYY HH:mm:ss A" cut into its formatting tokens.
DateFormat ==
    <<"D", "/", "MM", "/", "YYYY", " ", "HH", ":", "mm", ":", "ss", " ", "A">>

\* 1 when position i of s holds one of chars, else 0.
Opt(s, i, chars) == IF i >= 1 /\ i <= Len(s) /\ s[i] \in chars THEN 1 ELSE 0

\* Length of the match of m?\.? at position j.
MeridiemEnd(s, j) == Opt(s, j, {"m", "M"}) + Opt(s, j + Opt(s, j, {"m", "M"}), {"."})

\* Length of the match of /[ap]\.?m?\.?/i (defaultLocaleMeridiemParse) at
\* position i of s, 0 when it does not match there.
MeridiemLen(s, i) ==
    IF Opt(s, i, {"a", "p", "A", "P"}) = 0 THEN 0
    ELSE 1 + Opt(s, i + 1, {"."}) + MeridiemEnd(s, i + 1 + Opt(s, i + 1, {"."}))

\* Length of the match of the token's strict-mode regular expression at
\* position i of s, 0 when it does not match there.
\*   D, H      /\d\d?/           MM, DD, HH, mm, ss   /\d\d/
\*   YYYY      /\d{4}/           A    the meridiem expression
\*   literal   the character itself
MatchLen(token, s, i) ==
    CASE token \in {"D", "H"} ->
           IF ~IsDigitAt(s, i) THEN 0 ELSE IF IsDigitAt(s, i + 1) THEN 2 ELSE 1
      [] token \in {"MM", "DD", "HH", "mm", "ss"} ->
           IF IsDigitAt(s, i) /\ IsDigitAt(s, i + 1) THEN 2 ELSE 0
      [] token = "YYYY" ->
           IF \A j \in i .. i + 3 : IsDigitAt(s, j) THEN 4 ELSE 0
      [] token = "A" -> MeridiemLen(s, i)
      [] OTHER -> Opt(s, i, {token})

\* Index of the leftmost match of the token in s, 0 when there is none.
FirstMatch(token, s) ==
    IF \A i \in 1 .. Len(s) : MatchLen(token, s, i) = 0 THEN 0
    ELSE CHOOSE i \in 1 .. Len(s) :
           /\ MatchLen(token, s, i) > 0
           /\ \A j \in 1 .. i - 1 : MatchLen(token, s, j) = 0

RECURSIVE ToInt(_)
ToInt(s) ==
    IF s = <<>> THEN 0
    ELSE 10 * ToInt(SubSeq(s, 1, Len(s) - 1)) + DigitVal(s[Len(s)])

\* locale.isPM(input): (input + "").toLowerCase().charAt(0) === "p"
IsPM(input) == Head(input) \in {"p", "P"}

\* The parse function of a token: the value it stores in the array of
\* parsed fields (months are stored from 0).
Store(token, a, input) ==
    CASE token \in {"D", "DD"} -> [a EXCEPT !.date = ToInt(input)]
      [] token = "MM"          -> [a EXCEPT !.month = ToInt(input) - 1]
      [] token = "YYYY"        -> [a EXCEPT !.year = ToInt(input)]
      [] token \in {"H", "HH"} -> [a EXCEPT !.hour = ToInt(input)]
      [] token = "mm"          -> [a EXCEPT !.minute = ToInt(input)]
      [] token = "ss"          -> [a EXCEPT !.second = ToInt(input)]
      [] token = "A"           -> [a EXCEPT !.isPm = IF IsPM(input) THEN 1 ELSE 0]
      [] OTHER                 -> a

\* The state of the parse before the first token: nothing consumed, no
\* field parsed (-1).
ParseStart(s) ==
    [string |-> s, parsed |-> 0, unusedTokens |-> 0,
     a |-> [date |-> -1, month |-> -1, year |-> -1, hour |-> -1,
            minute |-> -1, second |-> -1, isPm |-> -1]]

\* The token matched n characters at position i: what precedes the match
\* is skipped, the match is consumed and its value stored.
Consume(token, st, i, n) ==
    [string |-> Drop(st.string, i + n - 1),
     parsed |-> st.parsed + n,
     unusedTokens |-> st.unusedTokens,
     a |-> Store(token, st.a, SubSeq(st.string, i, i + n - 1))]

ParseTokenAt(token, st, i) ==
    IF i = 0 THEN [st EXCEPT !.unusedTokens = @ + 1]
    ELSE Consume(token, st, i, MatchLen(token, st.string, i))

\* One round of the token loop of configFromStringAndFormat.
ParseToken(token, st) == ParseTokenAt(token, st, FirstMatch(token, st.string))

RECURSIVE ParseTokens(_, _, _)
ParseTokens(tokens, k, st) ==
    IF k > Len(tokens) THEN st
    ELSE ParseTokens(tokens, k + 1, ParseToken(tokens[k], st))

\* meridiemFixWrap: the parsed hour adjusted by the AM/PM marker.
MeridiemFix(hour, isPm) ==
    IF isPm = 1 /\ hour < 12 THEN hour + 12
    ELSE IF isPm = 0 /\ hour = 12 THEN 0
    ELSE hour

IsLeapYear(year) == (year % 4 = 0 /\ year % 100 # 0) \/ year % 400 = 0

\* daysInMonth(year, month) with month counted from 0.
DaysInMonth(year, month) ==
    IF month = 1 THEN (IF IsLeapYear(year) THEN 29 ELSE 28)
    ELSE 31 - ((month % 7) % 2)

\* checkOverflow: some parsed value lies outside its range.
Overflow(a, hour) ==
    \/ a.month < 0 \/ a.month > 11
    \/ a.date < 1 \/ a.date > DaysInMonth(a.year, a.month)
    \/ hour < 0 \/ hour > 24
    \/ (hour = 24 /\ (a.minute # 0 \/ a.second # 0))
    \/ a.minute < 0 \/ a.minute > 59
    \/ a.second < 0 \/ a.second > 59

\* The day after year-month-date (month counted from 0): the Date that
\* configFromArray builds for the time 24:00:00.
NextDay(year, month, date) ==
    IF date < DaysInMonth(year, month)
    THEN [isValid |-> TRUE, year |-> year, month |-> month, date |-> date + 1]
    ELSE IF month < 11
         THEN [isValid |-> TRUE, year |-> year, month |-> month + 1, date |-> 1]
         ELSE [isValid |-> TRUE, year |-> year + 1, month |-> 0, date |-> 1]

\* isValid() in strict mode: no character left over, no token unused, no
\* overflow; and the calendar date of a valid moment.
Validate(charsLeftOver, unusedTokens, a, hour) ==
    IF charsLeftOver # 0 \/ unusedTokens # 0 \/ Overflow(a, hour)
    THEN [isValid |-> FALSE]
    ELSE IF hour = 24 THEN NextDay(a.year, a.month, a.date)
         ELSE [isValid |-> TRUE, year |-> a.year, month |-> a.month, date |-> a.date]

Parsed(raw, st) ==
    Validate(Len(raw) - st.parsed, st.unusedTokens, st.a,
             MeridiemFix(st.a.hour, st.a.isPm))

\* moment(raw, format, true): validity and the calendar date it denotes.
Moment(raw, tokens) ==
    IF raw = Null THEN [isValid |-> FALSE]
    ELSE Parsed(raw, ParseTokens(tokens, 1, ParseStart(raw)))

\* A number as exactly `width` digits, zero padded.
RECURSIVE ZeroFill(_, _)
ZeroFill(n, width) ==
    IF width = 0 THEN <<>>
    ELSE ZeroFill(n \div 10, width - 1) \o <<DigitChar(n % 10)>>

\* m.format("YYYY-MM-DD")
FormatDate(m) ==
    ZeroFill(m.year, 4) \o <<"-">> \o ZeroFill(m.month + 1, 2) \o <<"-">>
        \o ZeroFill(m.date, 2)

\* receivedDate.isValid() ? receivedDate.format("YYYY-MM-DD") : ""
FormatIfValid(receivedDate) ==
    IF receivedDate.isValid THEN FormatDate(receivedDate) ELSE <<>>

\* The received date of a row from the raw value passed to moment.
ReceivedDate(raw) == FormatIfValid(Moment(raw, DateFormat))

(***************************************************************************)
(* Inputs of a run: the links of the catalogue page, the random number,    *)
(* the CSV bodies and the rows already in data.sqlite.                     *)
(***************************************************************************)
MaxLinks == 3
MaxRows == 2
RandomSteps == 4

Urls == {"csv1", "csv2", "csv3"}

\* const CommentUrl
CommentUrl == "mailto:Playford@playford.sa.gov.au"

\* moment().format("YYYY-MM-DD"): the day the scrape runs.
ScrapeDate == FormatDate([year |-> 2018, month |-> 7, date |-> 5])

\* The anchors a.resource-url-analytics of the page, in document order.
PageLinks == UNION {[1 .. n -> Urls] : n \in 0 .. MaxLinks}

\* Math.random(): a number in [0, 1), here k / RandomSteps.
Randoms == 0 .. RandomSteps - 1

DA123 == <<"D", "A", "1", "2", "3">>
SmithSt == <<"1", " ", "S", "m", "i", "t", "h", " ", "S", "t">>
Adelaide == <<"A", "d", "e", "l", "a", "i", "d", "e", " ", "5", "0", "0", "0">>
NewShed == <<"N", "e", "w", " ", "s", "h", "e", "d">>
Date1Feb2020 ==
    <<"1", "/", "0", "2", "/", "2", "0", "2", "0", " ",
      "9", ":", "0", "0", ":", "0", "0", " ", "A", "M">>
Date5Mar2018 ==
    <<"0", "5", "/", "0", "3", "/", "2", "0", "1", "8", " ",
      "1", "2", ":", "0", "0", ":", "0", "0", " ", "A", "M">>
IsoDate == <<"2", "0", "1", "8", "-", "0", "3", "-", "0", "5">>

\* Header rows: the five recognised names in the usual order, with a
\* mandatory column missing, with optional columns missing, and with a
\* repeated, a misspelt and an unknown name.
FullHeader ==
    <<"ApplicationNumber", "PropertyAddress", "PropertySuburbPostCode",
      "ApplicationDesc", "LodgementDate">>

Headers ==
    { FullHeader,
      <<"PropertyAddress", "PropertySuburbPostCode", "ApplicationDesc", "LodgementDate">>,
      <<"ApplicationNumber", "ApplicationDesc", "LodgementDate">>,
      <<"LodgementDate", "PropertySuburbPostCode", "ApplicationNumber">>,
      <<"ApplicationNumber", "propertyaddress", "ApplicationNumber", "PropertyAddress">>,
      <<"Suburb", " ApplicationNumber", "PropertyAddress">> }

\* The data of a row by field, before it is laid out under a header.
Fields ==
    { [number |-> DA123, address1 |-> SmithSt, address2 |-> Adelaide,
       description |-> NewShed, date |-> Date1Feb2020],
      [number |-> <<" ">> \o DA123, address1 |-> <<"A", " ", " ">>, address2 |-> <<" ", "B">>,
       description |-> <<" ", " ">>, date |-> Date5Mar2018],
      [number |-> <<" ", "\t">>, address1 |-> <<"A">>, address2 |-> <<"B">>,
       description |-> <<"D">>, date |-> IsoDate],
      [number |-> <<"K">>, address1 |-> <<" ">>, address2 |-> <<>>,
       description |-> <<"D", " ">>, date |-> <<>>] }

\* The cell of column i: the field its header names; a column whose name is
\* not recognised, or is repeated further right, holds other data.
Cell(header, i, f) ==
    IF \E j \in i + 1 .. Len(header) : header[j] = header[i] THEN <<"x">>
    ELSE CASE header[i] = "ApplicationNumber"      -> f.number
           [] header[i] = "PropertyAddress"        -> f.address1
           [] header[i] = "PropertySuburbPostCode" -> f.address2
           [] header[i] = "ApplicationDesc"        -> f.description
           [] header[i] = "LodgementDate"          -> f.date
           [] OTHER                                -> <<"x">>

\* The data rows a CSV with this header may hold: one per element of
\* Fields, and the same rows with their last cell missing.
DataRows(header) ==
    LET full == {[i \in 1 .. Len(header) |-> Cell(header, i, f)] : f \in Fields}
    IN  full \cup {SubSeq(r, 1, Len(r) - 1) : r \in full}

\* A stored row of table [data].
StoredRow(key, address, description, url, scraped, received, from, to) ==
    [council_reference |-> key, address |-> address, description |-> description,
     info_url |-> url, comment_url |-> CommentUrl, date_scraped |-> scraped,
     date_received |-> received, on_notice_from |-> from, on_notice_to |-> to]

\* What data.sqlite may hold when the run starts: nothing, or a row for
\* DA123 left by an earlier run and enriched since.
InitialDatabases ==
    { {},
      {StoredRow(DA123, <<"O", "l", "d">>, <<"O", "l", "d">>, "csv1",
                 FormatDate([year |-> 2018, month |-> 7, date |-> 4]), <<>>,
                 "2018-08-01", "2018-08-15")} }


(***************************************************************************)
(* State                                                                   *)
(***************************************************************************)
VARIABLES
    conflict,       \* the conflict clause of the insert statement: "ignore" or "replace"
    database,       \* the rows of table [data]
    pc,             \* where main, or the top-level driver, is
    urls,           \* main's urls
    selectedUrls,   \* main's selectedUrls
    urlIndex,       \* position of the loop over selectedUrls, from 1
    header,         \* rows[0] of the CSV being processed
    rowCount,       \* rows.length of the CSV being processed
    applicationNumberColumnIndex,
    receivedDateColumnIndex,
    descriptionColumnIndex,
    addressColumnIndex1,
    addressColumnIndex2,
    rowIndex,       \* position of the loop over rows
    row,            \* rows[rowIndex]
    pending,        \* the statements handed to sqlite whose callback has not run
    console,        \* the last line insertRow wrote to the console
    unparsed,       \* the URLs reported as "Could not parse any development applications"
    error,          \* the error main rejected with
    hrefs,                      \* discovery and selection on their own
    dateIn, dateOut,            \* date normalisation on its own
    cell1, cell2, addressOut    \* address combining on its own

vars ==
    <<conflict, database, pc, urls, selectedUrls, urlIndex, header, rowCount,
      applicationNumberColumnIndex, receivedDateColumnIndex, descriptionColumnIndex,
      addressColumnIndex1, addressColumnIndex2, rowIndex, row, pending, console,
      unparsed, error, hrefs, dateIn, dateOut, cell1, cell2, addressOut>>

columns ==
    <<applicationNumberColumnIndex, receivedDateColumnIndex, descriptionColumnIndex,
      addressColumnIndex1, addressColumnIndex2>>

\* The index record of the CSV being processed.
Columns ==
    [applicationNumber |-> applicationNumberColumnIndex,
     receivedDate |-> receivedDateColumnIndex,
     description |-> descriptionColumnIndex,
     address1 |-> addressColumnIndex1,
     address2 |-> addressColumnIndex2]

pureVars == <<hrefs, dateIn, dateOut, cell1, cell2, addressOut>>

\* The value of a result that has not been computed yet.
None == <<"none">>

\* The console before insertRow has written to it.
NoLine == [line |-> "none", applicationNumber |-> <<>>, address |-> <<>>, description |-> <<>>]

PureIdle ==
    /\ hrefs = <<>>
    /\ dateIn = <<>> /\ dateOut = None
    /\ cell1 = <<>> /\ cell2 = <<>> /\ addressOut = None

MainIdle ==
    /\ conflict = "ignore"
    /\ database = {}
    /\ pc = "idle"
    /\ urls = <<>> /\ selectedUrls = <<>> /\ urlIndex = 0
    /\ header = <<>> /\ rowCount = 0
    /\ applicationNumberColumnIndex = -1 /\ receivedDateColumnIndex = -1
    /\ descriptionColumnIndex = -1
    /\ addressColumnIndex1 = -1 /\ addressColumnIndex2 = -1
    /\ rowIndex = 0 /\ row = <<>>
    /\ pending = {} /\ console = NoLine /\ unparsed = {} /\ error = "none"

\* main has been called, the database is open and the catalogue page has
\* been requested.
Init ==
    /\ conflict \in {"ignore", "replace"}
    /\ database \in InitialDatabases
    /\ pc = "page"
    /\ urls = <<>> /\ selectedUrls = <<>> /\ urlIndex = 0
    /\ header = <<>> /\ rowCount = 0
    /\ applicationNumberColumnIndex = -1 /\ receivedDateColumnIndex = -1
    /\ descriptionColumnIndex = -1
    /\ addressColumnIndex1 = -1 /\ addressColumnIndex2 = -1
    /\ rowIndex = 0 /\ row = <<>>
    /\ pending = {} /\ console = NoLine /\ unparsed = {} /\ error = "none"
    /\ PureIdle

(***************************************************************************)
(* Discovery and selection (scraper.ts lines 79-100)                       *)
(***************************************************************************)
\* for (element of ...) if (!urls.some(url => url === href)) urls.push(href)
RECURSIVE DistinctUrls(_, _)
DistinctUrls(elements, found) ==
    IF elements = <<>> THEN found
    ELSE DistinctUrls(Tail(elements),
                      IF \E i \in 1 .. Len(found) : found[i] = Head(elements)
                      THEN found ELSE Append(found, Head(elements)))

\* getRandom(minimum, maximum) for integer arguments, Math.random() = k / RandomSteps
GetRandom(minimum, maximum, k) ==
    ((k * (maximum - minimum)) \div RandomSteps) + minimum

NotPopped(found) == found

\* urls after urls.pop()
Popped(found) == SubSeq(found, 1, Len(found) - 1)

\* selectedUrls = [ urls.pop() ];
\* if (urls.length >= 1) selectedUrls.push(urls[getRandom(0, urls.length)])
SelectUrls(found, k) ==
    IF Len(Popped(found)) >= 1
    THEN <<found[Len(found)], Popped(found)[GetRandom(0, Len(Popped(found)), k) + 1]>>
    ELSE <<found[Len(found)]>>

NoCsvFilesThrows == "rejected"

\* if (urls.length === 0) { console.log(...); return; }: main's promise resolves.
NoCsvFiles == "resolved"

\* The next iteration of the loop over selectedUrls: the next URL is
\* requested, or main returns.
NextUrl(selected) ==
    /\ urlIndex' = urlIndex + 1
    /\ pc' = IF urlIndex + 1 <= Len(selected) THEN "request" ELSE "resolved"

\* The catalogue page arrives: its links are collected and two are selected.
Discover(anchors, k) ==
    IF Len(DistinctUrls(anchors, <<>>)) = 0
    THEN /\ urls' = <<>>
         /\ pc' = NoCsvFiles
         /\ UNCHANGED <<selectedUrls, urlIndex>>
    ELSE /\ urls' = Popped(DistinctUrls(anchors, <<>>))
         /\ selectedUrls' = SelectUrls(DistinctUrls(anchors, <<>>), k)
         /\ urlIndex' = 1
         /\ pc' = "request"

RetrievePage ==
    /\ pc = "page"
    /\ \E anchors \in PageLinks, k \in Randoms : Discover(anchors, k)
    /\ UNCHANGED <<conflict, database, header, rowCount, columns, rowIndex, row,
                   pending, console, unparsed, error, pureVars>>

\* A request (of the page or of a CSV) fails, or parse(body) throws.
RequestFails ==
    /\ pc \in {"page", "request"}
    /\ pc' = "rejected"
    /\ error' = "request"
    /\ UNCHANGED <<conflict, database, urls, selectedUrls, urlIndex, header, rowCount,
                   columns, rowIndex, row, pending, console, unparsed, pureVars>>

(***************************************************************************)
(* Column mapping (scraper.ts lines 104-134)                               *)
(***************************************************************************)
ScanCellFirstWins(cell, columnIndex, idx) ==
    IF cell = "ApplicationNumber"
    THEN IF idx.applicationNumber < 0
         THEN [idx EXCEPT !.applicationNumber = columnIndex] ELSE idx
    ELSE IF cell = "LodgementDate" THEN [idx EXCEPT !.receivedDate = columnIndex]
    ELSE IF cell = "ApplicationDesc" THEN [idx EXCEPT !.description = columnIndex]
    ELSE IF cell = "PropertyAddress" THEN [idx EXCEPT !.address1 = columnIndex]
    ELSE IF cell = "PropertySuburbPostCode" THEN [idx EXCEPT !.address2 = columnIndex]
    ELSE idx

ScanCellAnyCase(cell, columnIndex, idx) ==
    IF cell \in {"ApplicationNumber", "applicationnumber"}
    THEN [idx EXCEPT !.applicationNumber = columnIndex]
    ELSE IF cell = "LodgementDate" THEN [idx EXCEPT !.receivedDate = columnIndex]
    ELSE IF cell = "ApplicationDesc" THEN [idx EXCEPT !.description = columnIndex]
    ELSE IF cell = "PropertyAddress" THEN [idx EXCEPT !.address1 = columnIndex]
    ELSE IF cell = "PropertySuburbPostCode" THEN [idx EXCEPT !.address2 = columnIndex]
    ELSE idx

\* The body of the loop over the header cells: the index record after cell.
ScanCell(cell, columnIndex, idx) ==
    IF cell = "ApplicationNumber" THEN [idx EXCEPT !.applicationNumber = columnIndex]
    ELSE IF cell = "LodgementDate" THEN [idx EXCEPT !.receivedDate = columnIndex]
    ELSE IF cell = "ApplicationDesc" THEN [idx EXCEPT !.description = columnIndex]
    ELSE IF cell = "PropertyAddress" THEN [idx EXCEPT !.address1 = columnIndex]
    ELSE IF cell = "PropertySuburbPostCode" THEN [idx EXCEPT !.address2 = columnIndex]
    ELSE idx

RECURSIVE ScanHeader(_, _, _)
ScanHeader(cells, columnIndex, idx) ==
    IF columnIndex >= Len(cells) THEN idx
    ELSE ScanHeader(cells, columnIndex + 1, ScanCell(cells[columnIndex + 1], columnIndex, idx))

LocateColumnsLeaky(cells) == ScanHeader(cells, 0, Columns)

\* All five indices start at -1 and the header is scanned left to right.
LocateColumns(cells) ==
    ScanHeader(cells, 0,
               [applicationNumber |-> -1, receivedDate |-> -1, description |-> -1,
                address1 |-> -1, address2 |-> -1])

CannotParseEitherMissing(idx) ==
    idx.applicationNumber < 0 \/ idx.address1 < 0 \/ idx.address2 < 0

\* applicationNumberColumnIndex < 0 || (addressColumnIndex1 < 0 && addressColumnIndex2 < 0)
CannotParse(idx) ==
    idx.applicationNumber < 0 \/ (idx.address1 < 0 /\ idx.address2 < 0)

\* A CSV arrives and is parsed.  An empty one is passed over; otherwise the
\* columns are located and a CSV without the mandatory ones is reported and
\* passed over.
RetrieveCsv ==
    /\ pc = "request"
    /\ \E n \in 0 .. MaxRows + 1, h \in Headers :
         LET idx == LocateColumns(h)
         IN  IF n = 0
             THEN /\ header' = <<>>
                  /\ rowCount' = 0
                  /\ NextUrl(selectedUrls)
                  /\ UNCHANGED <<columns, rowIndex, unparsed>>
             ELSE /\ header' = h
                  /\ rowCount' = n
                  /\ applicationNumberColumnIndex' = idx.applicationNumber
                  /\ receivedDateColumnIndex' = idx.receivedDate
                  /\ descriptionColumnIndex' = idx.description
                  /\ addressColumnIndex1' = idx.address1
                  /\ addressColumnIndex2' = idx.address2
                  /\ IF CannotParse(idx)
                     THEN /\ unparsed' = unparsed \cup {selectedUrls[urlIndex]}
                          /\ NextUrl(selectedUrls)
                          /\ UNCHANGED rowIndex
                     ELSE /\ rowIndex' = 1
                          /\ pc' = "rows"
                          /\ UNCHANGED <<unparsed, urlIndex>>
    /\ UNCHANGED <<conflict, database, urls, selectedUrls, row, pending, console,
                   error, pureVars>>


(***************************************************************************)
(* Record extraction (scraper.ts lines 138-158)                            *)
(***************************************************************************)
NoDescriptionProvided ==
    <<"N", "o", " ", "d", "e", "s", "c", "r", "i", "p", "t", "i", "o", "n", " ",
      "p", "r", "o", "v", "i", "d", "e", "d">>

\* row[index] is undefined, so that row[index].trim() throws a TypeError.
Undefined(r, index) == index >= Len(r)

\* Some cell the code reads from this row is undefined.
Throws(r, idx) ==
    \/ Undefined(r, idx.applicationNumber)
    \/ idx.address1 >= 0 /\ Undefined(r, idx.address1)
    \/ idx.address2 >= 0 /\ Undefined(r, idx.address2)
    \/ idx.description >= 0 /\ Undefined(r, idx.description)
    \/ idx.receivedDate >= 0 /\ Undefined(r, idx.receivedDate)

\* (index < 0) ? "" : row[index].trim()
TrimmedCell(r, index) == IF index < 0 THEN <<>> ELSE Trim(r[index + 1])

\* (index < 0) ? null : row[index].trim()
RawDate(r, index) == IF index < 0 THEN Null ELSE Trim(r[index + 1])

DescriptionAsIs(description) == description

\* (description === "") ? "No description provided" : description
DescriptionOrDefault(description) ==
    IF description = <<>> THEN NoDescriptionProvided ELSE description

\* The object the code builds from a row and passes to insertRow.
DevelopmentApplication(r, idx, url) ==
    [applicationNumber |-> Trim(r[idx.applicationNumber + 1]),
     address |-> CombineAddress(IF idx.address1 < 0 THEN <<>> ELSE r[idx.address1 + 1],
                                IF idx.address2 < 0 THEN <<>> ELSE r[idx.address2 + 1]),
     description |-> DescriptionOrDefault(TrimmedCell(r, idx.description)),
     informationUrl |-> url,
     commentUrl |-> CommentUrl,
     scrapeDate |-> ScrapeDate,
     receivedDate |-> ReceivedDate(RawDate(r, idx.receivedDate))]

IsCompleteNumberOnly(applicationNumber, address) == applicationNumber # <<>>

IsCompleteAddressOnly(applicationNumber, address) == address # <<>>

\* applicationNumber !== "" && address !== ""
IsComplete(applicationNumber, address) ==
    applicationNumber # <<>> /\ address # <<>>

AwaitInsertRowNot == "rows"

\* await insertRow(...): main is suspended until the promise settles.
AwaitInsertRow == "insert"

\* if (applicationNumber !== "" && address !== "") await insertRow(...)
Submit(da) ==
    IF IsComplete(da.applicationNumber, da.address)
    THEN /\ pending' = pending \cup {da}
         /\ pc' = AwaitInsertRow
         /\ UNCHANGED <<rowIndex, error>>
    ELSE /\ rowIndex' = rowIndex + 1
         /\ UNCHANGED <<pc, pending, error>>

\* One iteration of the loop over the data rows, up to the call of
\* insertRow or, for an incomplete row, to the end of the iteration.
ProcessRow ==
    /\ pc = "rows"
    /\ rowIndex < rowCount
    /\ \E r \in DataRows(header) :
         /\ row' = r
         /\ IF Throws(r, Columns)
            THEN /\ pc' = "rejected"
                 /\ error' = "TypeError"
                 /\ UNCHANGED <<rowIndex, pending>>
            ELSE Submit(DevelopmentApplication(r, Columns, selectedUrls[urlIndex]))
    /\ UNCHANGED <<conflict, database, urls, selectedUrls, urlIndex, header, rowCount,
                   columns, console, unparsed, pureVars>>

\* The loop over the data rows ends.
EndOfRows ==
    /\ pc = "rows"
    /\ rowIndex >= rowCount
    /\ NextUrl(selectedUrls)
    /\ UNCHANGED <<conflict, database, urls, selectedUrls, header, rowCount, columns,
                   rowIndex, row, pending, console, unparsed, error, pureVars>>

(***************************************************************************)
(* insertRow (scraper.ts lines 34-61; "insert or replace" in the other     *)
(* build, part_000 lines 164-192)                                          *)
(***************************************************************************)
\* The nine values bound to the statement.
Values(da) ==
    StoredRow(da.applicationNumber, da.address, da.description, da.informationUrl,
              da.scrapeDate, da.receivedDate, "null", "null")

HasKeyNever(db, key) == FALSE

\* [council_reference] text primary key: a row with this key is stored.
HasKey(db, key) == \E r \in db : r.council_reference = key

InsertOrReplace(db, da, clause) ==
    {r \in db : r.council_reference # da.applicationNumber} \cup {Values(da)}

\* insert or ignore / insert or replace into [data], [council_reference]
\* being the primary key.
Insert(db, da, clause) ==
    IF clause = "ignore"
    THEN IF HasKey(db, da.applicationNumber) THEN db ELSE db \cup {Values(da)}
    ELSE {r \in db : r.council_reference # da.applicationNumber} \cup {Values(da)}

\* this.changes: the number of rows the statement inserted.
Changes(db, da, clause) ==
    IF clause = "ignore" /\ HasKey(db, da.applicationNumber) THEN 0 ELSE 1

ConsoleLine(line, da) ==
    [line |-> line, applicationNumber |-> da.applicationNumber,
     address |-> da.address, description |-> da.description]

\* The callback of sqlStatement.run without an error: the outcome is
\* logged, the promise resolves and main goes on to the next row.
InsertRowDone ==
    /\ \E da \in pending :
         /\ database' = Insert(database, da, conflict)
         /\ console' = ConsoleLine(IF Changes(database, da, conflict) > 0
                                   THEN "Inserted" ELSE "Skipped", da)
         /\ pending' = pending \ {da}
    /\ IF pc = "insert"
       THEN pc' = "rows" /\ rowIndex' = rowIndex + 1
       ELSE UNCHANGED <<pc, rowIndex>>
    /\ UNCHANGED <<conflict, urls, selectedUrls, urlIndex, header, rowCount, columns,
                   row, unparsed, error, pureVars>>

RejectSwallowed == "rows"

\* reject(error): the awaiting main throws.
Reject == "rejected"

\* The callback of sqlStatement.run with an error: the error is logged and
\* the promise rejects, which main does not catch.
InsertRowFails ==
    /\ \E da \in pending :
         /\ console' = ConsoleLine("Error", da)
         /\ pending' = pending \ {da}
    /\ IF pc = "insert"
       THEN /\ pc' = Reject
            /\ error' = IF Reject = "rejected" THEN "storage" ELSE error
            /\ rowIndex' = IF Reject = "rejected" THEN rowIndex ELSE rowIndex + 1
       ELSE UNCHANGED <<pc, error, rowIndex>>
    /\ UNCHANGED <<conflict, database, urls, selectedUrls, urlIndex, header, rowCount,
                   columns, row, unparsed, pureVars>>

(***************************************************************************)
(* The top-level driver (scraper.ts line 162)                              *)
(***************************************************************************)
\* main().then(() => console.log("Complete."))
Complete ==
    /\ pc = "resolved"
    /\ pc' = "Complete."
    /\ UNCHANGED <<conflict, database, urls, selectedUrls, urlIndex, header, rowCount,
                   columns, rowIndex, row, pending, console, unparsed, error, pureVars>>

\* .catch(error => console.error(error))
Catch ==
    /\ pc = "rejected"
    /\ pc' = "error"
    /\ UNCHANGED <<conflict, database, urls, selectedUrls, urlIndex, header, rowCount,
                   columns, rowIndex, row, pending, console, unparsed, error, pureVars>>

\* The exit code of the process once the chain of line 162 has settled.
\* Nothing assigns process.exitCode and the rejection of main is handled by
\* .catch, whose handler returns, so node exits with 0 after either.
ExitCode(outcome) ==
    IF outcome = "Complete." THEN 0
    ELSE IF outcome = "error" THEN 0
    ELSE -1

Next ==
    \/ RetrievePage
    \/ RequestFails
    \/ RetrieveCsv
    \/ ProcessRow
    \/ EndOfRows
    \/ InsertRowDone
    \/ InsertRowFails
    \/ Complete
    \/ Catch

Spec == Init /\ [][Next]_vars


(***************************************************************************)
(* Date normalisation and address combining on their own: the input is     *)
(* drawn at the start and the function is applied once.                    *)
(***************************************************************************)
MaxCellLen == 3

Slash == <<"/">>
Space == <<" ">>

DayTexts == {<<"5">>, <<"0", "5">>, <<"2", "9">>, <<"3", "1">>, <<"0">>, <<"3", "2">>,
             <<"1", "2", "3">>}
MonthTexts == {<<"0", "3">>, <<"3">>, <<"1", "3">>, <<"0", "2">>, <<"0", "0">>, <<"1", "2">>}
YearTexts == {<<"2", "0", "1", "8">>, <<"2", "0", "2", "0">>, <<"1", "8">>}
TimeTexts ==
    { <<"1", "2", ":", "0", "0", ":", "0", "0">>,
      <<"0", "9", ":", "0", "0", ":", "0", "0">>,
      <<"9", ":", "0", "0", ":", "0", "0">>,
      <<"2", "3", ":", "5", "9", ":", "5", "9">>,
      <<"2", "4", ":", "0", "0", ":", "0", "0">>,
      <<"2", "4", ":", "0", "0", ":", "0", "1">>,
      <<"1", "2", ":", "6", "0", ":", "0", "0">>,
      <<"1", "2", ":", "0", "0">> }
MarkerTexts ==
    { <<" ", "A", "M">>, <<" ", "P", "M">>, <<" ", "a", "m">>, <<" ", "a">>,
      <<" ", "p", ".", "m", ".">>, <<" ", "X", "M">>, <<"A", "M">>, <<>> }

\* The cells of a LodgementDate column: day/month/year time marker in many
\* right and wrong spellings, some other texts, and (Null) no such column.
DateCells ==
    { d \o Slash \o m \o Slash \o y \o Space \o h \o a :
        d \in DayTexts, m \in MonthTexts, y \in YearTexts, h \in TimeTexts,
        a \in MarkerTexts }
    \cup { <<>>, Space, IsoDate, Space \o Date5Mar2018 \o Space,
           <<"5", "-", "0", "3", "-", "2", "0", "1", "8", " ",
             "1", "2", ":", "0", "0", ":", "0", "0", " ", "A", "M">> }

AddressChars == {"A", "B", " ", "\t"}

\* The cells of an address column: every text of up to MaxCellLen characters.
AddressCells == UNION {[1 .. n -> AddressChars] : n \in 0 .. MaxCellLen}

InitDate ==
    /\ MainIdle
    /\ dateIn \in DateCells \cup {Null}
    /\ dateOut = None
    /\ cell1 = <<>> /\ cell2 = <<>> /\ addressOut = None
    /\ hrefs = <<>>

\* Lines 144 and 156 for one cell (or for a CSV without the column).
NormalizeDate ==
    /\ dateOut = None
    /\ dateOut' = ReceivedDate(RawDate(<<dateIn>>, IF dateIn = Null THEN -1 ELSE 0))
    /\ UNCHANGED <<conflict, database, pc, urls, selectedUrls, urlIndex, header,
                   rowCount, columns, rowIndex, row, pending, console, unparsed, error,
                   hrefs, dateIn, cell1, cell2, addressOut>>

SpecDate == InitDate /\ [][NormalizeDate]_vars

InitAddress ==
    /\ MainIdle
    /\ cell1 \in AddressCells
    /\ cell2 \in AddressCells
    /\ addressOut = None
    /\ dateIn = <<>> /\ dateOut = None
    /\ hrefs = <<>>

\* Lines 141, 142, 145 and 146 for one pair of cells.
Combine ==
    /\ addressOut = None
    /\ addressOut' = CombineAddress(cell1, cell2)
    /\ UNCHANGED <<conflict, database, pc, urls, selectedUrls, urlIndex, header,
                   rowCount, columns, rowIndex, row, pending, console, unparsed, error,
                   hrefs, dateIn, dateOut, cell1, cell2>>

SpecAddress == InitAddress /\ [][Combine]_vars

\* Discovery and selection on their own: the anchors of the page are the
\* input.
InitSelect ==
    /\ conflict = "ignore"
    /\ database = {}
    /\ pc = "page"
    /\ urls = <<>> /\ selectedUrls = <<>> /\ urlIndex = 0
    /\ header = <<>> /\ rowCount = 0
    /\ applicationNumberColumnIndex = -1 /\ receivedDateColumnIndex = -1
    /\ descriptionColumnIndex = -1
    /\ addressColumnIndex1 = -1 /\ addressColumnIndex2 = -1
    /\ rowIndex = 0 /\ row = <<>>
    /\ pending = {} /\ console = NoLine /\ unparsed = {} /\ error = "none"
    /\ hrefs \in PageLinks
    /\ dateIn = <<>> /\ dateOut = None
    /\ cell1 = <<>> /\ cell2 = <<>> /\ addressOut = None

\* Lines 84 to 100 for the anchors of one page.
Select ==
    /\ pc = "page"
    /\ \E k \in Randoms : Discover(hrefs, k)
    /\ UNCHANGED <<conflict, database, header, rowCount, columns, rowIndex, row,
                   pending, console, unparsed, error, pureVars>>

NextSelect ==
    \/ Select
    \/ RequestFails
    \/ Complete
    \/ Catch

SpecSelect == InitSelect /\ [][NextSelect]_vars

\* The header scan on its own: the header row is the input.
MaxHeaderLen == 3

\* The five recognised names, two near misses and a foreign name.
HeaderCells ==
    {"ApplicationNumber", "LodgementDate", "ApplicationDesc", "PropertyAddress",
     "PropertySuburbPostCode", "applicationnumber", " ApplicationNumber", "Suburb"}

HeaderRows == UNION {[1 .. n -> HeaderCells] : n \in 0 .. MaxHeaderLen}

InitHeader ==
    /\ conflict = "ignore"
    /\ database = {}
    /\ pc = "idle"
    /\ urls = <<>> /\ selectedUrls = <<>> /\ urlIndex = 0
    /\ header \in HeaderRows
    /\ rowCount = 1
    /\ applicationNumberColumnIndex = -1 /\ receivedDateColumnIndex = -1
    /\ descriptionColumnIndex = -1
    /\ addressColumnIndex1 = -1 /\ addressColumnIndex2 = -1
    /\ rowIndex = 0 /\ row = <<>>
    /\ pending = {} /\ console = NoLine /\ unparsed = {} /\ error = "none"
    /\ PureIdle

\* Lines 111 to 129 for one header row.
Locate ==
    /\ pc = "idle"
    /\ pc' = "located"
    /\ applicationNumberColumnIndex' = LocateColumns(header).applicationNumber
    /\ receivedDateColumnIndex' = LocateColumns(header).receivedDate
    /\ descriptionColumnIndex' = LocateColumns(header).description
    /\ addressColumnIndex1' = LocateColumns(header).address1
    /\ addressColumnIndex2' = LocateColumns(header).address2
    /\ UNCHANGED <<conflict, database, urls, selectedUrls, urlIndex, header, rowCount,
                   rowIndex, row, pending, console, unparsed, error, pureVars>>

SpecHeader == InitHeader /\ [][Locate]_vars



(***************************************************************************)
(* Properties                                                              *)
(***************************************************************************)
Blank(c) == c = " " \/ c = "\t"

\* s without any of its whitespace.
Solid(s) == SelectSeq(s, LAMBDA c : ~Blank(c))

Tidy(s) ==
    /\ s # <<>> => ~Blank(s[1]) /\ ~Blank(s[Len(s)])
    /\ \A i \in 1 .. Len(s) - 1 : ~(Blank(s[i]) /\ Blank(s[i + 1]))

\* out is x, one space, y, where x holds the text of `first` and y that of
\* `second`.
JoinedBySpace(out, first, second) ==
    \E k \in 2 .. Len(out) - 1 :
        /\ out[k] = " "
        /\ ~Blank(out[k - 1]) /\ ~Blank(out[k + 1])
        /\ Solid(SubSeq(out, 1, k - 1)) = Solid(first)
        /\ Solid(SubSeq(out, k + 1, Len(out))) = Solid(second)

\* C10: combining two address cells gives "" for two empty cells, the one
\* non-empty fragment alone, and "A B" for "A" and "B" as for "A  " and
\* " B"; in general the result keeps the text of both cells in order, has a
\* single space between the two fragments exactly when both are non-empty
\* (nothing is inserted otherwise), has no leading or trailing whitespace
\* and no two consecutive whitespace characters.
C10_AddressCombined ==
    addressOut # None =>
        /\ cell1 = <<>> /\ cell2 = <<>> => addressOut = <<>>
        /\ cell1 = <<"A">> /\ cell2 = <<>> => addressOut = <<"A">>
        /\ cell1 = <<>> /\ cell2 = <<"B">> => addressOut = <<"B">>
        /\ cell1 = <<"A">> /\ cell2 = <<"B">> => addressOut = <<"A", " ", "B">>
        /\ cell1 = <<"A", " ", " ">> /\ cell2 = <<" ", "B">>
              => addressOut = <<"A", " ", "B">>
        /\ Tidy(addressOut)
        /\ Solid(addressOut) = Solid(cell1) \o Solid(cell2)
        /\ IF Solid(cell1) # <<>> /\ Solid(cell2) # <<>>
           THEN JoinedBySpace(addressOut, cell1, cell2)
           ELSE Len(addressOut) <= Len(cell1) + Len(cell2)
                /\ (Solid(cell1) = <<>> /\ Tidy(cell2) => addressOut = cell2)
                /\ (Solid(cell2) = <<>> /\ Tidy(cell1) => addressOut = cell1)

C10_Witness ==
    /\ cell1 = <<"A", " ", " ">>
    /\ cell2 = <<" ", "B">>
    /\ addressOut = <<"A", " ", "B">>


\* The text between positions i and j as a number, -1 unless all digits.
Number(s, i, j) ==
    IF \A k \in i .. j : k <= Len(s) /\ s[k] \in Digits
    THEN ToInt(SubSeq(s, i, j)) ELSE -1

\* Number of characters of the day of a date text: 1 when "/" follows the
\* first character, else 2.
DayLen(s) == IF Len(s) >= 2 /\ s[2] = "/" THEN 1 ELSE 2

\* s reads D/MM/YYYY HH:mm:ss followed by a space and one of the markers,
\* with a 1- or 2-digit day and every other number of fixed width; d is
\* the number of characters of the day.
HasShape(s, d, markers) ==
    /\ Len(s) >= d + 19
    /\ Number(s, 1, d) >= 0
    /\ s[d + 1] = "/" /\ Number(s, d + 2, d + 3) >= 0
    /\ s[d + 4] = "/" /\ Number(s, d + 5, d + 8) >= 0
    /\ s[d + 9] = " " /\ Number(s, d + 10, d + 11) >= 0
    /\ s[d + 12] = ":" /\ Number(s, d + 13, d + 14) >= 0
    /\ s[d + 15] = ":" /\ Number(s, d + 16, d + 17) >= 0
    /\ s[d + 18] = " "
    /\ SubSeq(s, d + 19, Len(s)) \in markers

\* The day, month and year of s name a day of the calendar.
CalendarDay(s, d) ==
    /\ Number(s, d + 2, d + 3) \in 1 .. 12
    /\ Number(s, 1, d) >= 1
    /\ Number(s, 1, d) <= DaysInMonth(Number(s, d + 5, d + 8), Number(s, d + 2, d + 3) - 1)

\* The time of s is a time of the day, 00:00:00 to 23:59:59.
ClockTime(s, d) ==
    /\ Number(s, d + 10, d + 11) <= 23
    /\ Number(s, d + 13, d + 14) <= 59
    /\ Number(s, d + 16, d + 17) <= 59

Midnight24(s, d) ==
    /\ Number(s, d + 10, d + 11) = 24
    /\ Number(s, d + 13, d + 14) = 0
    /\ Number(s, d + 16, d + 17) = 0

\* YYYY-MM-DD read off the date text s.
DatePart(s, d) ==
    SubSeq(s, d + 5, d + 8) \o <<"-">> \o SubSeq(s, d + 2, d + 3) \o <<"-">>
        \o (IF d = 1 THEN <<"0">> ELSE <<>>) \o SubSeq(s, 1, d)

IsIsoDate(s) ==
    /\ Len(s) = 10
    /\ \A i \in {1, 2, 3, 4, 6, 7, 9, 10} : s[i] \in Digits
    /\ s[5] = "-" /\ s[8] = "-"

UpperMarkers == {<<"A", "M">>, <<"P", "M">>}

\* Every text the meridiem expression [ap]\.?m?\.? matches, in either case.
MeridiemMarkers ==
    { <<c>> \o dot1 \o m \o dot2 :
        c \in {"a", "p", "A", "P"}, dot1 \in {<<>>, <<".">>},
        m \in {<<>>, <<"m">>, <<"M">>}, dot2 \in {<<>>, <<".">>} }

\* The date text the code hands to moment for the cell dateIn.
DateText == IF dateIn = Null THEN <<>> ELSE Trim(dateIn)

Conforming(s, markers) ==
    HasShape(s, DayLen(s), markers) /\ CalendarDay(s, DayLen(s)) /\ ClockTime(s, DayLen(s))

\* C4 as stated: the received date is "" or YYYY-MM-DD; a text D/MM/YYYY
\* HH:mm:ss AM|PM of valid values gives its date part; every other text
\* gives "".
C4_AsStated ==
    dateOut # None =>
        /\ dateOut = <<>> \/ IsIsoDate(dateOut)
        /\ Conforming(DateText, UpperMarkers)
              => dateOut = DatePart(DateText, DayLen(DateText))
        /\ ~Conforming(DateText, UpperMarkers) => dateOut = <<>>

\* C4 as the code has it: the received date is "" or YYYY-MM-DD; a text
\* D/MM/YYYY HH:mm:ss of a calendar day and a time 00:00:00 to 23:59:59,
\* followed by a space and a marker a or p, in either case, optionally
\* followed by m and with optional dots (AM, pm, a, p.m.), gives its date
\* part; the same with the time 24:00:00 gives the following day; every
\* other text, and an absent column, gives "".
C4_DateNormalized ==
    dateOut # None =>
        /\ dateOut = <<>> \/ IsIsoDate(dateOut)
        /\ Conforming(DateText, MeridiemMarkers)
              => dateOut = DatePart(DateText, DayLen(DateText))
        /\ dateOut # <<>> /\ ~Conforming(DateText, MeridiemMarkers)
              => /\ HasShape(DateText, DayLen(DateText), MeridiemMarkers)
                 /\ CalendarDay(DateText, DayLen(DateText))
                 /\ Midnight24(DateText, DayLen(DateText))
                 /\ dateOut # DatePart(DateText, DayLen(DateText))
                 /\ dateOut = FormatDate(NextDay(Number(DateText, DayLen(DateText) + 5, DayLen(DateText) + 8),
                                                 Number(DateText, DayLen(DateText) + 2, DayLen(DateText) + 3) - 1,
                                                 Number(DateText, 1, DayLen(DateText))))
        /\ dateIn = Null => dateOut = <<>>

C4_Witness ==
    /\ dateIn = <<"5">> \o Slash \o <<"0", "3">> \o Slash \o <<"2", "0", "1", "8">>
                  \o Space \o <<"1", "2", ":", "0", "0", ":", "0", "0">> \o <<" ", "A", "M">>
    /\ dateOut = IsoDate


(***************************************************************************)
(* Properties of a run                                                     *)
(***************************************************************************)
Names(h) == {h[i] : i \in 1 .. Len(h)}

\* The cell of row r under the rightmost column of h called name, "" when
\* h has no such column.
CellNamed(h, r, name) ==
    IF name \notin Names(h) THEN <<>>
    ELSE r[CHOOSE i \in 1 .. Len(h) :
             h[i] = name /\ \A j \in i + 1 .. Len(h) : h[j] # name]

WithKey(db, key) == {r \in db : r.council_reference = key}

\* The rows this run has stored.
StoredNow == {r \in database : r.date_scraped = ScrapeDate}

\* A step in which the callback of the statement for da runs without error.
Written(da) == da \in pending /\ da \notin pending' /\ console'.line # "Error"

\* C1: with "insert or ignore", writing a record whose key is not stored
\* stores it with its own fields and logs Inserted; writing one whose key
\* is stored logs Skipped and leaves the database as it was; so when a
\* record is written right after another of the same key was Inserted with
\* a different description, the one row of that key keeps the first
\* record's description and address.
C1_InsertIfAbsent ==
    [][conflict = "ignore" =>
        \A da \in pending : Written(da) =>
            /\ Cardinality(WithKey(database', da.applicationNumber)) = 1
            /\ IF WithKey(database, da.applicationNumber) = {}
               THEN /\ console'.line = "Inserted"
                    /\ database \subseteq database'
                    /\ \A r \in WithKey(database', da.applicationNumber) :
                         /\ r.address = da.address
                         /\ r.description = da.description
                         /\ r.info_url = da.informationUrl
                         /\ r.date_received = da.receivedDate
                         /\ r.on_notice_from = "null" /\ r.on_notice_to = "null"
               ELSE /\ console'.line = "Skipped"
                    /\ database' = database
            /\ (/\ console.line = "Inserted"
                /\ console.applicationNumber = da.applicationNumber
                /\ console.description # da.description)
               => /\ console'.line = "Skipped"
                  /\ \A r \in WithKey(database', da.applicationNumber) :
                       r.description = console.description /\ r.address = console.address
    ]_vars

C1_Witness ==
    /\ conflict = "ignore"
    /\ console.line = "Skipped"
    /\ console.description = NoDescriptionProvided
    /\ \E r \in StoredNow :
         /\ r.council_reference = console.applicationNumber
         /\ r.description = NewShed

\* C2: every record handed to the store, and every row stored, has an
\* application number and an address that hold more than whitespace.
C2_KeyAndAddressPresent ==
    /\ \A da \in pending :
         /\ Solid(da.applicationNumber) # <<>> /\ Solid(da.address) # <<>>
         /\ Solid(CellNamed(header, row, "ApplicationNumber")) # <<>>
         /\ Solid(CellNamed(header, row, "PropertyAddress")
                  \o CellNamed(header, row, "PropertySuburbPostCode")) # <<>>
    /\ \A r \in StoredNow :
         Solid(r.council_reference) # <<>> /\ Solid(r.address) # <<>>

C2_Witness ==
    /\ pending # {}
    /\ rowIndex = 2
    /\ StoredNow # {}

E2ERow == <<DA123, SmithSt, Adelaide, NewShed, Date1Feb2020>>

E2EAddress == SmithSt \o <<" ">> \o Adelaide

\* A step in which main reads the end-to-end row under the end-to-end header.
ReadsE2ERow ==
    /\ pc = "rows" /\ rowIndex < rowCount /\ pending = {}
    /\ header = FullHeader
    /\ row' = E2ERow

HandsOver(received) ==
    /\ pc' = "insert"
    /\ Cardinality(pending') = 1
    /\ \A da \in pending' :
         /\ da.applicationNumber = DA123
         /\ da.address = E2EAddress
         /\ da.description = NewShed
         /\ da.receivedDate = received

\* C3 as stated: the end-to-end row gives one record with received date
\* 2020-02-01.
C3_AsStated ==
    [][ReadsE2ERow => HandsOver(<<"2", "0", "2", "0", "-", "0", "2", "-", "0", "1">>)]_vars

\* C3 as the code has it: the end-to-end row gives one record with
\* application number DA123, address "1 Smith St Adelaide 5000",
\* description "New shed" and the received date "", the hour of
\* "1/02/2020 9:00:00 AM" having one digit.
C3_EndToEnd == [][ReadsE2ERow => HandsOver(<<>>)]_vars

C3_Witness ==
    /\ pc = "insert"
    /\ header = FullHeader /\ rowCount = 2 /\ row = E2ERow
    /\ \E da \in pending : da.address = E2EAddress /\ da.receivedDate = <<>>

\* C5: at most one write is in flight, and while one is, main is suspended
\* at its await: it reads no row, starts no write and requests no CSV.
C5_SequentialWrites ==
    /\ Cardinality(pending) <= 1
    /\ pending # {} => pc = "insert"

C5_Witness ==
    /\ pending # {}
    /\ urlIndex = 2 /\ rowIndex = 2
    /\ StoredNow # {}

\* C6: once insertRow has logged a storage error the run is over: main has
\* rejected with that error, nothing is in flight, no later step writes,
\* reads a row or requests a CSV, and the driver ends in its error outcome,
\* never in "Complete.".
C6_StorageFaultIsFatal ==
    /\ [](console.line = "Error" =>
            /\ pc \in {"rejected", "error"}
            /\ error = "storage"
            /\ pending = {})
    /\ [][console.line = "Error" =>
            /\ pc' = "error"
            /\ UNCHANGED <<database, pending, console, urlIndex, rowIndex, row, header, error>>
       ]_vars

\* The fault struck before the last row of the first of two CSVs.
C6_Witness ==
    /\ console.line = "Error"
    /\ pc = "error"
    /\ rowIndex + 1 < rowCount
    /\ urlIndex = 1 /\ Len(selectedUrls) = 2

\* The header lacks a mandatory column.
LacksMandatory(h) ==
    \/ "ApplicationNumber" \notin Names(h)
    \/ "PropertyAddress" \notin Names(h) /\ "PropertySuburbPostCode" \notin Names(h)

\* C7: when a non-empty CSV arrives whose header lacks ApplicationNumber,
\* or both address columns, it is reported, nothing is handed to the store,
\* no error is raised and the loop goes on to the next selected URL (or
\* main returns); a CSV with ApplicationNumber and one of the address
\* columns goes on to its rows.  No row the run stores or hands to the
\* store is from a reported CSV.
C7_ColumnMappingFailure ==
    /\ [](/\ \A da \in pending : da.informationUrl \notin unparsed
          /\ \A r \in StoredNow : r.info_url \notin unparsed)
    /\ [][(pc = "request" /\ pc' # "rejected" /\ rowCount' > 0) =>
            IF LacksMandatory(header')
            THEN /\ unparsed' = unparsed \cup {selectedUrls[urlIndex]}
                 /\ urlIndex' = urlIndex + 1
                 /\ pc' = IF urlIndex < Len(selectedUrls) THEN "request" ELSE "resolved"
                 /\ error' = "none"
                 /\ UNCHANGED <<database, pending>>
            ELSE /\ pc' = "rows" /\ rowIndex' = 1
                 /\ UNCHANGED <<unparsed, urlIndex, error>>
       ]_vars

\* The first CSV was reported and a row of the second is being written.
C7_Witness ==
    /\ Len(selectedUrls) = 2
    /\ unparsed = {selectedUrls[1]}
    /\ urlIndex = 2
    /\ pending # {}

\* C8: a data row with all its cells whose application number is blank, or
\* whose two address cells are blank, is passed over: nothing is handed to
\* the store, nothing is stored, no error is raised and main goes on to the
\* next row.
C8_IncompleteRowDropped ==
    [][(/\ pc = "rows" /\ rowIndex < rowCount /\ pending = {}
        /\ Len(row') = Len(header)
        /\ \/ Solid(CellNamed(header, row', "ApplicationNumber")) = <<>>
           \/ Solid(CellNamed(header, row', "PropertyAddress")
                    \o CellNamed(header, row', "PropertySuburbPostCode")) = <<>>)
       => /\ pc' = "rows"
          /\ rowIndex' = rowIndex + 1
          /\ error' = "none"
          /\ UNCHANGED <<database, pending, console, urlIndex>>
    ]_vars

\* The first row of the first CSV was passed over (nothing is stored) and
\* the second is being written.
C8_Witness ==
    /\ database = {}
    /\ urlIndex = 1 /\ rowIndex = 2
    /\ pc = "insert"
    /\ console = NoLine

\* s is t without its leading and trailing whitespace.
IsTrimOf(s, t) ==
    /\ s # <<>> => ~Blank(s[1]) /\ ~Blank(s[Len(s)])
    /\ \E i \in 0 .. Len(t) :
         /\ SubSeq(t, i + 1, i + Len(s)) = s
         /\ \A k \in 1 .. Len(t) : (k <= i \/ k > i + Len(s)) => Blank(t[k])

\* C9: the description of a record handed to the store is "No description
\* provided" exactly when the row's ApplicationDesc cell is blank or the
\* CSV has no such column, is the trimmed cell otherwise, and is never "".
C9_DescriptionDefault ==
    \A da \in pending :
        /\ da.description # <<>>
        /\ (da.description = NoDescriptionProvided)
              <=> (Solid(CellNamed(header, row, "ApplicationDesc")) = <<>>)
        /\ Solid(CellNamed(header, row, "ApplicationDesc")) # <<>>
              => IsTrimOf(da.description, CellNamed(header, row, "ApplicationDesc"))

C9_Witness ==
    /\ \E da \in pending : da.description = NoDescriptionProvided
    /\ "ApplicationDesc" \in Names(header)
    /\ CellNamed(header, row, "ApplicationDesc") = <<" ", " ">>

(***************************************************************************)
(* Properties of the header scan                                           *)
(***************************************************************************)
\* The positions of the header, counted from 0, whose cell is exactly name.
Positions(h, name) == {i \in 0 .. Len(h) - 1 : h[i + 1] = name}

\* The last such position, or -1 when there is none.
LastPosition(h, name) ==
    IF Positions(h, name) = {} THEN -1
    ELSE CHOOSE i \in Positions(h, name) : \A j \in Positions(h, name) : j <= i

\* C11 as stated: after the scan the application-number slot equals every
\* position of the header that holds "ApplicationNumber", and is -1 when
\* no position does.
C11_AsStated ==
    pc = "located" =>
        /\ \A i \in Positions(header, "ApplicationNumber") :
             applicationNumberColumnIndex = i
        /\ Positions(header, "ApplicationNumber") = {} =>
             applicationNumberColumnIndex = -1

\* C11: after the scan the application-number slot equals the position of
\* the header that holds "ApplicationNumber" and is followed by no other
\* such position, and is -1 when no position holds it.
C11_FieldLocator ==
    pc = "located" =>
        /\ \A i \in Positions(header, "ApplicationNumber") :
             (\A j \in Positions(header, "ApplicationNumber") : j <= i) =>
                 applicationNumberColumnIndex = i
        /\ Positions(header, "ApplicationNumber") = {} =>
             applicationNumberColumnIndex = -1

\* A header that holds the name twice has been scanned and the slot is the
\* second position.
C11_Witness ==
    /\ pc = "located"
    /\ Positions(header, "ApplicationNumber") = {0, 2}
    /\ applicationNumberColumnIndex = 2

(***************************************************************************)
(* Properties of a run, continued                                          *)
(***************************************************************************)
\* The row has no cell at one of the columns the header scan located.
LacksMappedCell(r) ==
    \E f \in DOMAIN Columns : Columns[f] >= 0 /\ Columns[f] >= Len(r)

\* C12 as stated: when the loop over the rows of a CSV that passed the
\* mandatory-column check reads a row with no cell at a located column,
\* no exception is raised: the row is handed to the store or dropped and
\* main goes on with the loop.
C12_AsStated ==
    [][(pc = "rows" /\ rowIndex < rowCount /\ LacksMappedCell(row')) =>
          /\ pc' \in {"rows", "insert"}
          /\ error' = "none"]_vars

\* The page has been retrieved and no link was found on it: after the
\* loop of lines 85-87 urls is empty and nothing was popped from it.
NoLinkFound ==
    pc = "page" /\ error' = "none" /\ urls' = <<>> /\ selectedUrls' = <<>>

\* C13: when the page yields no matching link, main returns at once: no
\* CSV is requested, no header or row is read, nothing is handed to the
\* store or written, no error is raised, and the only step that follows is
\* the driver logging "Complete.".
C13_DiscoveryFailure ==
    /\ [][/\ NoLinkFound =>
               /\ pc' = "resolved"
               /\ UNCHANGED <<database, pending, console, unparsed, urlIndex,
                              header, rowCount, rowIndex, row>>
          /\ (pc = "resolved" /\ selectedUrls = <<>>) =>
               /\ pc' = "Complete."
               /\ UNCHANGED <<database, pending, console, unparsed, urlIndex,
                              header, rowCount, rowIndex, row, error>>]_vars
    /\ []((selectedUrls = <<>> /\ pc \in {"resolved", "Complete."}) =>
             /\ database \in InitialDatabases
             /\ pending = {} /\ console = NoLine /\ unparsed = {}
             /\ urlIndex = 0 /\ header = <<>> /\ rowCount = 0 /\ row = <<>>
             /\ error = "none")

\* A run whose page had no link has ended with "Complete.".
C13_Witness ==
    /\ pc = "Complete."
    /\ selectedUrls = <<>> /\ urls = <<>>
    /\ urlIndex = 0 /\ error = "none"

\* The row that a record handed to insertRow is stored as.
RowOf(da) ==
    StoredRow(da.applicationNumber, da.address, da.description, da.informationUrl,
              ScrapeDate, da.receivedDate, "null", "null")

\* C14 as stated: with "insert or replace", a completed write leaves
\* exactly the record's row stored under its key, the on-notice fields
\* null, whatever was stored under the key before; and it is logged as
\* Inserted when the key was not stored and as the other outcome (Skipped)
\* when it was.
C14_AsStated ==
    [][\A da \in pending :
          (conflict = "replace" /\ Written(da)) =>
              /\ WithKey(database', da.applicationNumber) = {RowOf(da)}
              /\ console'.line =
                   IF WithKey(database, da.applicationNumber) = {}
                   THEN "Inserted" ELSE "Skipped"]_vars

\* C15 as stated: once the driver has logged an error that reached it, the
\* process ends with an exit code that is not zero and is not the exit code
\* of a run that ended with "Complete.".
C15_AsStated ==
    pc = "error" =>
        /\ ExitCode(pc) # 0
        /\ ExitCode(pc) # ExitCode("Complete.")

\* The name that sets each slot.
RecognizedNames ==
    [applicationNumber |-> "ApplicationNumber",
     receivedDate |-> "LodgementDate",
     description |-> "ApplicationDesc",
     address1 |-> "PropertyAddress",
     address2 |-> "PropertySuburbPostCode"]

\* C16: after the scan each of the five slots is the last position of the
\* header whose cell is exactly the slot's own name, and -1 when no cell is:
\* a cell that differs from the name in case or by a leading space sets
\* nothing, and no slot depends on the cells that hold other names.
C16_HeaderScan ==
    pc = "located" =>
        \A f \in DOMAIN RecognizedNames :
            Columns[f] = LastPosition(header, RecognizedNames[f])

\* A header with a recognised name twice, around a cell that differs from
\* another recognised name only in case, has been scanned.
C16_Witness ==
    /\ pc = "located"
    /\ header = <<"PropertyAddress", "applicationnumber", "PropertyAddress">>
    /\ addressColumnIndex1 = 2
    /\ applicationNumberColumnIndex = -1

\* C17: with "insert or ignore" the store holds one row per key; the first
\* completed write of a key that was not stored stores the record of the
\* row being processed, with the URL of the CSV being processed; no later
\* step changes or removes a stored row; and the CSVs are processed in the
\* order of selectedUrls, the rows of a CSV in the order of the file.
C17_FirstOccurrenceWins ==
    /\ [](conflict = "ignore" =>
             \A r1, r2 \in database :
                 r1.council_reference = r2.council_reference => r1 = r2)
    /\ [][conflict = "ignore" =>
             /\ database \subseteq database'
             /\ \A da \in pending :
                  (Written(da) /\ WithKey(database, da.applicationNumber) = {}) =>
                      /\ da.informationUrl = selectedUrls[urlIndex]
                      /\ da.applicationNumber = Trim(row[applicationNumberColumnIndex + 1])
                      /\ WithKey(database', da.applicationNumber) = {RowOf(da)}
             /\ urlIndex' >= urlIndex
             /\ (pc \in {"rows", "insert"} /\ pc' \in {"rows", "insert"}) =>
                  /\ urlIndex' = urlIndex
                  /\ header' = header
                  /\ rowIndex' >= rowIndex]_vars

\* The only row of the second CSV has been processed: its key was stored
\* from the first CSV with another address, and the stored row is still
\* the one of the first CSV.
C17_Witness ==
    /\ conflict = "ignore"
    /\ pc = "rows" /\ urlIndex = 2 /\ rowIndex = 2 /\ rowCount = 2
    /\ selectedUrls[1] # selectedUrls[2]
    /\ applicationNumberColumnIndex < Len(row)
    /\ console.line = "Skipped"
    /\ console.applicationNumber = Trim(row[applicationNumberColumnIndex + 1])
    /\ \E r \in StoredNow :
         /\ r.council_reference = console.applicationNumber
         /\ r.info_url = selectedUrls[1]
         /\ r.address # console.address

(***************************************************************************)
(* Properties of discovery and selection                                   *)
(***************************************************************************)
\* The distinct hrefs of the page.
DistinctHrefs == {hrefs[i] : i \in 1 .. Len(hrefs)}

\* The position of the first anchor with this href.
FirstAnchor(u) ==
    CHOOSE i \in 1 .. Len(hrefs) : hrefs[i] = u /\ \A j \in 1 .. i - 1 : hrefs[j] # u

\* The distinct href that is discovered last.
LastDiscovered ==
    CHOOSE u \in DistinctHrefs : \A v \in DistinctHrefs : FirstAnchor(v) <= FirstAnchor(u)

\* C18: once the URLs are selected there are one or two of them; the first
\* is the distinct href discovered last; there is a second exactly when the
\* page has two or more distinct hrefs, and it is one of the other distinct
\* hrefs of the page, so never the first.
C18_SourceSelection ==
    selectedUrls # <<>> =>
        /\ Len(selectedUrls) \in {1, 2}
        /\ selectedUrls[1] = LastDiscovered
        /\ Len(selectedUrls) = 2 <=> Cardinality(DistinctHrefs) >= 2
        /\ Len(selectedUrls) = 2 =>
             selectedUrls[2] \in DistinctHrefs \ {selectedUrls[1]}

\* Of three distinct hrefs the last and the second have been selected.
C18_Witness ==
    /\ pc = "request"
    /\ Cardinality(DistinctHrefs) = 3
    /\ Len(hrefs) = 3
    /\ selectedUrls = <<hrefs[3], hrefs[2]>>

(***************************************************************************)
(* Properties of the column mapping in a run                               *)
(***************************************************************************)
\* C19: while a CSV with a header is being processed, each of the five
\* slots is determined by that header alone (the last position of the
\* slot's own name, -1 without one), whatever the CSV before it had; and
\* the rows of a CSV are only read when its own header has
\* ApplicationNumber and one of the address columns.
C19_NoLeak ==
    /\ rowCount > 0 =>
         \A f \in DOMAIN RecognizedNames :
             Columns[f] = LastPosition(header, RecognizedNames[f])
    /\ pc \in {"rows", "insert"} => ~LacksMandatory(header)

\* The first CSV stored a row with a description of its own; the second
\* CSV has no ApplicationDesc column and a record of it is handed to the
\* store with the default description.
C19_Witness ==
    /\ urlIndex = 2 /\ pc = "insert"
    /\ descriptionColumnIndex = -1
    /\ \E r \in StoredNow : r.info_url = selectedUrls[1] /\ r.description = NewShed
    /\ \E da \in pending :
         /\ da.informationUrl = selectedUrls[2]
         /\ da.description = NoDescriptionProvided

=============================================================================
